---- MODULE Spec2Model ----
(***************************************************************************)
(* QR attendance protocol of qr-backend: token issuance (generateQR,       *)
(* generateTeacherSelfQR), student redemption (scanQR, markAttendance) and *)
(* teacher self-attendance (scanTeacherQR, scanTeacherAttendanceQR) over   *)
(* the Attendance collection.  Every await of a handler is a step of its   *)
(* own, so requests interleave exactly where Node.js lets them.            *)
(***************************************************************************)
EXTENDS Integers, Sequences, FiniteSets, TLC

VARIABLES now, tokens, attendance, procs, nreq, tlog, last

vars == <<now, tokens, attendance, procs, nreq, tlog, last>>

-----------------------------------------------------------------------------
(* Bounds of the model *)

MaxTokens == 1
MaxClassRequests == 2
MaxSelfRequests == 3
NumProcs == 2
MaxLedgerRequests == 3
MaxKeyTokens == 2
MaxKeyRequests == 3
MaxFailRequests == 4
MaxLoginRequests == 2
MaxRefreshTokens == 2
MaxRefreshRequests == 2

(* Program constants *)

ClassTtlSec == 300
TeacherTtlSec == 120
ScanWindowMs == 5 * 60 * 1000
MarkWindowMin == 5
LateAfterMin == 1
MsPerSec == 1000
MsPerMin == 1000 * 60
MsPerHour == 1000 * 60 * 60
DayMs == 24 * MsPerHour

(* The directory and the clock readings the requests are drawn from. *)

Teachers == {"t1", "t2"}

\* req.body.teacherId of the unauthenticated test route: a teacher of the
\* directory or an id the Teacher collection does not hold.
TeacherIdInputs == Teachers \cup {"t9"}
Students == {"s1", "s2"}

\* req.user.id on the student routes: the students of the directory and one
\* authenticated user the Student collection does not hold.
StudentUsers == Students \cup {"u9"}

\* student.section of the directory.
StudentSection(s) == IF s = "s1" THEN "B" ELSE ""

\* institutionCode of the directory entry (and of req.user): two
\* institutions, a teacher and a student in each.
InstitutionOf(u) == IF u \in {"t2", "s2"} THEN "I2" ELSE "I1"

\* mongoose casts a string to ObjectId when it has the form of one: the ids
\* of the model have it, a free-form employee code has not.
IsObjectId(x) == x \in {"t1", "t2", "t9", "s1", "s2", "u9"}

\* req.body of generateQR: subject and class are given; section and period
\* are left out (section "", period 0) or given.
ClassInputs ==
  {[subject |-> "math", class |-> "10", section |-> sp[1], period |-> sp[2]] :
     sp \in {<<"", 0>>, <<"A", 2>>}}

\* a || b of JavaScript: the empty (or missing) string and the number 0
\* (or a missing number) are falsy.
StrOr(a, b) == IF a = "" THEN b ELSE a

NumOr(a, b) == IF a = 0 THEN b ELSE a
ProcIds == 1..NumProcs

\* Instants (ms since midnight of day 0) at which the clock is read: both
\* sides of the 1-minute lateness threshold, of the 2-minute and of the
\* 5-minute expiry, and one issuance off the whole second.
TimePoints == {0, 500, 60000, 60001, 120000, 300000, 300001}

\* Instants at which the teachers of the model ask for a token.
IssueTimes == {0, 500}

-----------------------------------------------------------------------------
(* Token codec: jsonwebtoken's sign and verify as the handlers call them *)

\* A time that is not set: an undefined field of a payload or document.
NoTime == 0 - 1

\* new Date(); setHours(0, 0, 0, 0)
Midnight(t) == (t \div DayMs) * DayMs

\* jwt.sign(payload, secret, {expiresIn}): iat = floor(Date.now() / 1000),
\* exp = iat + expiresIn, both in whole seconds.
JwtExp(t, ttlSec) == (t \div MsPerSec) + ttlSec

\* Payload of generateQR: no type field; section: section || "",
\* period: period || 1.
ClassPayload(sid, t, body) ==
  [sessionId |-> sid, teacherId |-> t, type |-> "none",
   subject |-> body.subject, class |-> body.class,
   section |-> StrOr(body.section, ""), period |-> NumOr(body.period, 1),
   institutionCode |-> InstitutionOf(t),
   timestamp |-> now, exp |-> JwtExp(now, ClassTtlSec)]

\* Payload of generateTeacherSelfQR: no subject, class, section or period
\* (written "" and 0 here).
TeacherPayload(sid, t) ==
  [sessionId |-> sid, teacherId |-> t, type |-> "teacher_attendance",
   subject |-> "", class |-> "", section |-> "", period |-> 0,
   institutionCode |-> InstitutionOf(t),
   timestamp |-> now, exp |-> JwtExp(now, TeacherTtlSec)]

\* Payload of loginStudent and loginTeacher, signed with the same secret for
\* 30 days: no sessionId (0 here), no timestamp and none of the class
\* fields; a teacher's carries teacherId: teacher.teacherId, the employee
\* code of the registration, a student's carries none ("").
LoginTtlSec == 30 * 24 * 60 * 60

LoginPayload(type, u, code) ==
  [sessionId |-> 0, teacherId |-> code, type |-> type,
   subject |-> "", class |-> "", section |-> "", period |-> 0,
   institutionCode |-> InstitutionOf(u),
   timestamp |-> NoTime, exp |-> JwtExp(now, LoginTtlSec)]

\* Token 0 is a string the secret did not sign; k >= 1 is the k-th issued token.
TokenInputs == 0..Len(tokens)

\* process.env.JWT_SECRET, and a key of somebody else.
Secret == "JWT_SECRET"

OtherKey == "other"

\* The JSON body of a token: the fields of the payload in order.
JwtEncode(payload) ==
  <<payload.sessionId, payload.teacherId, payload.type, payload.subject,
    payload.class, payload.section, payload.period, payload.institutionCode,
    payload.timestamp, payload.exp>>

\* jwt.sign: the body and its HMAC under the key (the pair of key and body
\* stands for the HMAC: equal exactly for the same key and the same body).
JwtSign(payload, key) ==
  [body |-> JwtEncode(payload), sig |-> <<key, JwtEncode(payload)>>]

\* The payload read back from the body.
JwtDecode(w) ==
  [sessionId |-> w.body[1], teacherId |-> w.body[2], type |-> w.body[3],
   subject |-> w.body[4], class |-> w.body[5], section |-> w.body[6],
   period |-> w.body[7], institutionCode |-> w.body[8],
   timestamp |-> w.body[9], exp |-> w.body[10]]

\* jwt.decode in place of jwt.verify: the signature is not looked at.
SignatureValid_Unchecked(w, key) == TRUE

SignatureValid(w, key) == w.sig = <<key, w.body>>

\* jwt.verify(token, secret) at time t: JsonWebTokenError for a bad
\* signature, else TokenExpiredError when floor(t / 1000) >= exp.
JwtVerifyWire(w, t) ==
  IF ~SignatureValid(w, Secret) THEN "JsonWebTokenError"
  ELSE IF (t \div MsPerSec) >= JwtDecode(w).exp THEN "TokenExpiredError"
  ELSE "ok"

\* What a forger writes into a token of their own making: a teacher
\* attendance claim for t1 in a session nobody issued, good for 30 days.
ForgedPayload ==
  [sessionId |-> 99, teacherId |-> "t1", type |-> "teacher_attendance",
   subject |-> "math", class |-> "10", section |-> "", period |-> 1,
   institutionCode |-> "I1", timestamp |-> 0, exp |-> JwtExp(0, LoginTtlSec)]

\* req.body.qrToken / qrData of request input k.
Presented(k) ==
  IF k = 0 THEN JwtSign(ForgedPayload, OtherKey) ELSE JwtSign(tokens[k], Secret)

JwtVerify(k) == JwtVerifyWire(Presented(k), now)

\* decoded, as the handlers read it after a successful verify.
Decoded(k) == JwtDecode(Presented(k))

-----------------------------------------------------------------------------
(* The Attendance collection *)

\* new Attendance({...}) with the schema's defaults for the fields left out.
NewDoc(type, student, teacher, sid, status, late, date, scan, checkIn) ==
  [attendanceType |-> type, studentId |-> student, teacherId |-> teacher,
   sessionId |-> sid, status |-> status, lateMinutes |-> late,
   date |-> date, scanTime |-> scan,
   teacherCheckIn |-> checkIn, teacherCheckOut |-> NoTime, workHours |-> 0,
   subject |-> "", class |-> "", section |-> "", period |-> 1,
   institutionCode |-> ""]

WithInstitution(doc, code) == [doc EXCEPT !.institutionCode = code]

\* validate() before a save: teacherId (an ObjectId), institutionCode,
\* sessionId and date are required; attendanceType and date have defaults.
Validates(doc) ==
  /\ IsObjectId(doc.teacherId)
  /\ doc.institutionCode # ""
  /\ doc.sessionId # 0

\* The class fields given to new Attendance({...}); a period left undefined
\* takes the schema's default 1.
WithClass(doc, subject, class, section, period) ==
  [doc EXCEPT !.subject = subject, !.class = class, !.section = section,
              !.period = NumOr(period, 1)]

DocIds == 1..Len(attendance)

\* Attendance.findOne(filter): the first matching document in natural
\* order, 0 when there is none.
FirstOf(ids) == IF ids = {} THEN 0 ELSE CHOOSE i \in ids : \A j \in ids : i <= j

\* The lookup with the student compared against the wrong field: the issuer.
FindBySession_WrongField(sid, student) ==
  FirstOf({i \in DocIds : attendance[i].sessionId = sid
                           /\ attendance[i].teacherId = student})

\* The lookup by sessionId alone, the student left out of the filter.
FindBySession_AnyStudent(sid, student) ==
  FirstOf({i \in DocIds : attendance[i].sessionId = sid})

FindBySession(sid, student) ==
  FirstOf({i \in DocIds : attendance[i].sessionId = sid
                           /\ attendance[i].studentId = student})

\* The lookup with date: {$gt: today} in place of $gte.
FindTeacherTyped_StrictDate(teacher, today) ==
  FirstOf({i \in DocIds : attendance[i].teacherId = teacher
                           /\ attendance[i].date > today
                           /\ attendance[i].attendanceType = "teacher"})

FindTeacherTyped(teacher, today) ==
  FirstOf({i \in DocIds : attendance[i].teacherId = teacher
                           /\ attendance[i].date >= today
                           /\ attendance[i].attendanceType = "teacher"})

FindTeacherAny(teacher, today) ==
  FirstOf({i \in DocIds : attendance[i].teacherId = teacher
                           /\ attendance[i].date >= today})

\* parseFloat(((out - in) / (1000 * 60 * 60)).toFixed(2)), in hundredths
\* of an hour.
WorkHours(checkIn, checkOut) ==
  ((checkOut - checkIn) + MsPerHour \div 200) \div (MsPerHour \div 100)

\* The store after a save that was rejected: a save writes one document as
\* a whole or not at all.  doc is the document the handler tried to write,
\* id its place (0 for a new one).
RejectedSave_Partial(id, doc) ==
  IF id = 0 THEN Append(attendance, doc)
  ELSE [attendance EXCEPT ![id].teacherCheckOut = doc.teacherCheckOut]

RejectedSave(id, doc) == attendance

-----------------------------------------------------------------------------
(* Requests in flight *)

NoResp == [code |-> 0, success |-> FALSE, message |-> "", action |-> ""]

Resp(code, success, message, action) ==
  [code |-> code, success |-> success, message |-> message, action |-> action]

Idle ==
  [h |-> "", pc |-> "idle", k |-> 0, s |-> "", t0 |-> 0, t1 |-> 0,
   ex |-> 0, wh |-> 0, resp |-> NoResp]

\* A request is taken by the first free slot.
Free(p) ==
  /\ procs[p].pc = "idle"
  /\ \A q \in ProcIds : q < p => procs[q].pc # "idle"

Begin(p, h, k, s) == [Idle EXCEPT !.h = h, !.k = k, !.s = s]

\* res.status(code).json(...): the response most recently sent, with the
\* request it answers.
Sent(pr) == [h |-> pr.h, k |-> pr.k, s |-> pr.s, resp |-> pr.resp]

Reply(pr, r) == [pr EXCEPT !.pc = "done", !.resp = r]

\* The request in slot p moves on to nx: to its next await, or, once it has
\* replied, out of the slot.
Advance(p, nx) ==
  IF nx.pc = "done"
    THEN procs' = [procs EXCEPT ![p] = Idle] /\ last' = Sent(nx)
    ELSE procs' = [procs EXCEPT ![p] = nx] /\ last' = last

Tok(p) == Decoded(procs[p].k)

Init ==
  /\ now = 0
  /\ tokens = <<>>
  /\ attendance = <<>>
  /\ procs = [p \in ProcIds |-> Idle]
  /\ nreq = 0
  /\ tlog = [t \in Teachers |-> <<>>]
  /\ last = Sent(Idle)

Tick(T) ==
  /\ \E t \in T : t > now /\ now' = t
  /\ UNCHANGED <<tokens, attendance, procs, nreq, tlog, last>>

GenerateQR(t, body) ==
  /\ tokens' = Append(tokens, ClassPayload(Len(tokens) + 1, t, body))
  /\ UNCHANGED <<now, attendance, procs, nreq, tlog, last>>

GenerateTeacherSelfQR(t) ==
  /\ tokens' = Append(tokens, TeacherPayload(Len(tokens) + 1, t))
  /\ UNCHANGED <<now, attendance, procs, nreq, tlog, last>>

\* refreshQR: oldSessionId is read and never used ("Invalidate old session"
\* is a comment); the request is handed to generateQR, which signs a token
\* for a new session and sends the one response of the request.  No session
\* is stored anywhere, so nothing about the old one changes.
RefreshQR(t, body, oldSessionId) ==
  /\ tokens' = Append(tokens, ClassPayload(Len(tokens) + 1, t, body))
  /\ last' = [h |-> "refreshQR", k |-> oldSessionId, s |-> t,
              resp |-> Resp(200, TRUE, "QR Code generated successfully", "")]
  /\ UNCHANGED <<now, attendance, procs, nreq, tlog>>

\* teacher.teacherId as registerTeacher stored it: any string of the
\* request body, here an employee code and a string that has the form of an
\* ObjectId and equals the _id of a teacher of the directory.
TeacherCodes == {"TCH1", "t1"}

LoginStudent(s) ==
  /\ tokens' = Append(tokens, LoginPayload("student", s, ""))
  /\ UNCHANGED <<now, attendance, procs, nreq, tlog, last>>

LoginTeacher(t, code) ==
  /\ tokens' = Append(tokens, LoginPayload("teacher", t, code))
  /\ UNCHANGED <<now, attendance, procs, nreq, tlog, last>>

-----------------------------------------------------------------------------------------------------------------------------------------------------
(* scanQR: student redemption of a class token (qrController) *)

ScanQR_Start(p, k, s) ==
  /\ Free(p)
  /\ nreq' = nreq + 1
  /\ LET pr == Begin(p, "scanQR", k, s)
         v == JwtVerify(k)
     IN Advance(p,
          IF v = "JsonWebTokenError"
            THEN Reply(pr, Resp(400, FALSE, "Invalid QR code", ""))
          ELSE IF v = "TokenExpiredError"
            THEN Reply(pr, Resp(400, FALSE, "QR code has expired", ""))
          ELSE IF Decoded(k).timestamp # NoTime
                  /\ now > Decoded(k).timestamp + ScanWindowMs
            THEN Reply(pr, Resp(400, FALSE, "QR code has expired", ""))
          ELSE [pr EXCEPT !.pc = "find", !.t0 = now])
  /\ UNCHANGED <<now, tokens, attendance, tlog>>

ScanQR_Find(p) ==
  /\ procs[p].h = "scanQR" /\ procs[p].pc = "find"
  /\ Advance(p,
       IF FindBySession(Tok(p).sessionId, procs[p].s) # 0
         THEN Reply(procs[p], Resp(400, FALSE,
                      "Attendance already marked for this session", ""))
       ELSE [procs[p] EXCEPT !.pc = "save", !.t1 = now])
  /\ UNCHANGED <<now, tokens, attendance, nreq, tlog>>

\* The document scanQR builds: status is the literal 'present'; lateMinutes,
\* date and scanTime are the schema's defaults at construction.
ScanQR_Doc(p) ==
  WithInstitution(
    WithClass(NewDoc("student", procs[p].s, Tok(p).teacherId, Tok(p).sessionId,
                     "present", 0, Midnight(procs[p].t1), procs[p].t1, NoTime),
              Tok(p).subject, Tok(p).class, Tok(p).section, Tok(p).period),
    Tok(p).institutionCode)

ScanQR_Save(p) ==
  /\ procs[p].h = "scanQR" /\ procs[p].pc = "save"
  /\ IF Validates(ScanQR_Doc(p))
       THEN /\ attendance' = Append(attendance, ScanQR_Doc(p))
            /\ Advance(p, Reply(procs[p],
                 Resp(200, TRUE, "Attendance marked successfully", "")))
       ELSE /\ attendance' = RejectedSave(0, ScanQR_Doc(p))
            /\ Advance(p, Reply(procs[p],
                 Resp(500, FALSE, "Failed to scan QR code", "")))
  /\ UNCHANGED <<now, tokens, nreq, tlog>>

\* attendance.save() rejects: the catch block answers 500.
ScanQR_SaveFails(p) ==
  /\ procs[p].h = "scanQR" /\ procs[p].pc = "save"
  /\ attendance' = RejectedSave(0, ScanQR_Doc(p))
  /\ Advance(p, Reply(procs[p], Resp(500, FALSE, "Failed to scan QR code", "")))
  /\ UNCHANGED <<now, tokens, nreq, tlog>>

-----------------------------------------------------------------------------
(* markAttendance: student redemption of a class token (attendanceController) *)

\* (currentTime - qrTime) / 1000 / 60 > n, for a whole number n of minutes
MinutesExceed(elapsedMs, n) == elapsedMs > n * MsPerMin

\* Math.round in place of Math.floor.
FloorMinutes_Round(elapsedMs) == (elapsedMs + MsPerMin \div 2) \div MsPerMin

\* Math.floor(timeDifference)
FloorMinutes(elapsedMs) == elapsedMs \div MsPerMin

\* currentTime - decoded.timestamp; with no timestamp in the payload the
\* difference is NaN and every comparison with it is false (0 here, which
\* exceeds no threshold).
Elapsed(t, timestamp) == IF timestamp = NoTime THEN 0 ELSE t - timestamp

IsLate(elapsedMs) == MinutesExceed(elapsedMs, LateAfterMin)

LateMinutes(elapsedMs) == IF IsLate(elapsedMs) THEN FloorMinutes(elapsedMs) ELSE 0

MarkAttendance_Start(p, k, s) ==
  /\ Free(p)
  /\ nreq' = nreq + 1
  /\ LET pr == Begin(p, "markAttendance", k, s)
     IN Advance(p,
          IF JwtVerify(k) # "ok"
            THEN Reply(pr, Resp(401, FALSE, "QR code expired or invalid", ""))
          ELSE IF MinutesExceed(Elapsed(now, Decoded(k).timestamp), MarkWindowMin)
            THEN Reply(pr, Resp(401, FALSE, "QR code has expired", ""))
          ELSE [pr EXCEPT !.pc = "find", !.t0 = now])
  /\ UNCHANGED <<now, tokens, attendance, tlog>>

MarkAttendance_Find(p) ==
  /\ procs[p].h = "markAttendance" /\ procs[p].pc = "find"
  /\ Advance(p,
       IF FindBySession(Tok(p).sessionId, procs[p].s) # 0
         THEN Reply(procs[p], Resp(400, FALSE,
                      "Attendance already marked for this class", ""))
       ELSE [procs[p] EXCEPT !.pc = "lookup"])
  /\ UNCHANGED <<now, tokens, attendance, nreq, tlog>>

\* Student.findById and Teacher.findById, then scanTime = new Date().  A
\* teacherId that is no ObjectId makes findById throw (CastError): 500.
MarkAttendance_Lookup(p) ==
  /\ procs[p].h = "markAttendance" /\ procs[p].pc = "lookup"
  /\ Advance(p,
       IF procs[p].s \notin Students
         THEN Reply(procs[p], Resp(404, FALSE, "Student not found", ""))
       ELSE IF Tok(p).teacherId # "" /\ ~IsObjectId(Tok(p).teacherId)
         THEN Reply(procs[p], Resp(500, FALSE, "Failed to mark attendance", ""))
       ELSE IF Tok(p).teacherId \notin Teachers
         THEN Reply(procs[p], Resp(404, FALSE, "Teacher not found", ""))
       ELSE [procs[p] EXCEPT !.pc = "save", !.t1 = now])
  /\ UNCHANGED <<now, tokens, attendance, nreq, tlog>>

\* The document markAttendance builds: lateness from the elapsed time read
\* at the start of the request, date: new Date() (not the start of day),
\* section: decoded.section || student.section || "", period:
\* decoded.period || 1.
MarkAttendance_Doc(p) ==
  LET elapsed == Elapsed(procs[p].t0, Tok(p).timestamp)
  IN WithInstitution(
       WithClass(
         NewDoc("student", procs[p].s, Tok(p).teacherId, Tok(p).sessionId,
                IF IsLate(elapsed) THEN "late" ELSE "present",
                LateMinutes(elapsed), procs[p].t1, procs[p].t1, NoTime),
         Tok(p).subject, Tok(p).class,
         StrOr(Tok(p).section, StrOr(StudentSection(procs[p].s), "")),
         NumOr(Tok(p).period, 1)),
       Tok(p).institutionCode)

MarkAttendance_Save(p) ==
  /\ procs[p].h = "markAttendance" /\ procs[p].pc = "save"
  /\ IF Validates(MarkAttendance_Doc(p))
       THEN /\ attendance' = Append(attendance, MarkAttendance_Doc(p))
            /\ Advance(p, Reply(procs[p],
                 Resp(200, TRUE, "Attendance marked", "")))
       ELSE /\ attendance' = RejectedSave(0, MarkAttendance_Doc(p))
            /\ Advance(p, Reply(procs[p],
                 Resp(500, FALSE, "Failed to mark attendance", "")))
  /\ UNCHANGED <<now, tokens, nreq, tlog>>

-----------------------------------------------------------------------------
(* scanTeacherQR: teacher self-attendance (qrController, routed) *)

\* History of the state-machine outcomes the teacher handlers returned, per
\* teacher, in order of completion.
Logged(t, h, op, action, day) ==
  [tlog EXCEPT ![t] = Append(@, [h |-> h, op |-> op, action |-> action, day |-> day])]

ScanTeacherQR_Start(p, k) ==
  /\ Free(p)
  /\ nreq' = nreq + 1
  /\ LET pr == Begin(p, "scanTeacherQR", k, "")
     IN Advance(p,
          IF JwtVerify(k) # "ok"
            THEN Reply(pr, Resp(401, FALSE, "Invalid or expired QR code", ""))
          ELSE IF Decoded(k).type # "teacher_attendance"
            THEN Reply(pr, Resp(400, FALSE,
                         "This QR is not for teacher attendance", ""))
          ELSE [pr EXCEPT !.pc = "teacher"])
  /\ UNCHANGED <<now, tokens, attendance, tlog>>

\* Teacher.findById, then today and currentTime are read before the findOne.
ScanTeacherQR_Teacher(p) ==
  /\ procs[p].h = "scanTeacherQR" /\ procs[p].pc = "teacher"
  /\ Advance(p,
       IF Tok(p).teacherId \notin Teachers
         THEN Reply(procs[p], Resp(404, FALSE, "Teacher not found", ""))
       ELSE [procs[p] EXCEPT !.pc = "find", !.t0 = now, !.t1 = now])
  /\ UNCHANGED <<now, tokens, attendance, nreq, tlog>>

\* The branches with the last one missing: every existing record is taken
\* for one that awaits its check-out.
TeacherDecide_NoCompleted(pr, ex) ==
  IF ex = 0 THEN [pr EXCEPT !.pc = "save", !.ex = 0]
  ELSE [pr EXCEPT !.pc = "save", !.ex = ex,
                  !.wh = WorkHours(attendance[ex].teacherCheckIn, pr.t1)]

\* The three branches on existingAttendance, the same in both teacher
\* handlers: none -> check-in pending; no teacherCheckOut -> check-out pending,
\* with the work hours computed from the document as read; else completed.
TeacherDecide(pr, ex) ==
  IF ex = 0 THEN [pr EXCEPT !.pc = "save", !.ex = 0]
  ELSE IF attendance[ex].teacherCheckOut = NoTime
    THEN [pr EXCEPT !.pc = "save", !.ex = ex,
                    !.wh = IF attendance[ex].teacherCheckIn # NoTime
                             THEN WorkHours(attendance[ex].teacherCheckIn, pr.t1)
                             ELSE attendance[ex].workHours]
  ELSE Reply(pr, Resp(400, FALSE, "Attendance already completed for today", ""))

ScanTeacherQR_Find(p) ==
  /\ procs[p].h = "scanTeacherQR" /\ procs[p].pc = "find"
  /\ LET ex == FindTeacherTyped(Tok(p).teacherId, Midnight(procs[p].t0))
         nx == TeacherDecide(procs[p], ex)
     IN /\ Advance(p, nx)
        /\ tlog' = IF nx.pc = "done"
                     THEN Logged(Tok(p).teacherId, "scanTeacherQR", "completed",
                                 "", Midnight(procs[p].t0))
                     ELSE tlog
  /\ UNCHANGED <<now, tokens, attendance, nreq>>

ScanTeacherQR_Doc(p) ==
  WithInstitution(
    NewDoc("teacher", "", Tok(p).teacherId, Tok(p).sessionId,
           "present", 0, Midnight(procs[p].t0), procs[p].t1, procs[p].t1),
    StrOr(Tok(p).institutionCode, InstitutionOf(Tok(p).teacherId)))

\* existingAttendance.save(): the modified paths are written to the
\* document with that _id.
CheckOutUpdate(doc, t, wh, setScanTime) ==
  [doc EXCEPT !.teacherCheckOut = t,
              !.scanTime = IF setScanTime THEN t ELSE @,
              !.workHours = wh]

\* The answer after existingAttendance.save() of a check-out: building it
\* calls existingAttendance.teacherCheckIn.toLocaleTimeString(), which throws
\* on a record without teacherCheckIn; the catch block then answers 500,
\* the record already written.
CheckOutReply(doc, ok) ==
  IF doc.teacherCheckIn = NoTime
    THEN Resp(500, FALSE, "Failed to process QR scan", "")
    ELSE ok

CheckOutOp(doc) == IF doc.teacherCheckIn = NoTime THEN "failed" ELSE "check_out"

ScanTeacherQR_Save(p) ==
  /\ procs[p].h = "scanTeacherQR" /\ procs[p].pc = "save"
  /\ IF procs[p].ex = 0
       THEN /\ attendance' = Append(attendance, ScanTeacherQR_Doc(p))
            /\ Advance(p, Reply(procs[p],
                 Resp(200, TRUE, "Teacher check-in successful", "check_in")))
            /\ tlog' = Logged(Tok(p).teacherId, "scanTeacherQR", "check_in",
                              "check_in", Midnight(procs[p].t0))
       ELSE /\ attendance' = [attendance EXCEPT ![procs[p].ex] =
                 CheckOutUpdate(@, procs[p].t1, procs[p].wh, TRUE)]
            /\ Advance(p, Reply(procs[p],
                 CheckOutReply(attendance[procs[p].ex],
                   Resp(200, FALSE, "Teacher check-out successful", "check_out"))))
            /\ tlog' = Logged(Tok(p).teacherId, "scanTeacherQR",
                              CheckOutOp(attendance[procs[p].ex]),
                              "check_out", Midnight(procs[p].t0))
  /\ UNCHANGED <<now, tokens, nreq>>

\* attendance.save() or existingAttendance.save() rejects: the catch block
\* answers 500; the change made to existingAttendance in memory is lost with
\* the request.
ScanTeacherQR_SaveFails(p) ==
  /\ procs[p].h = "scanTeacherQR" /\ procs[p].pc = "save"
  /\ attendance' =
       IF procs[p].ex = 0
         THEN RejectedSave(0, ScanTeacherQR_Doc(p))
         ELSE RejectedSave(procs[p].ex,
                CheckOutUpdate(attendance[procs[p].ex], procs[p].t1,
                               procs[p].wh, TRUE))
  /\ Advance(p, Reply(procs[p],
                      Resp(500, FALSE, "Failed to process QR scan", "")))
  /\ tlog' = Logged(Tok(p).teacherId, "scanTeacherQR", "failed", "",
                    Midnight(procs[p].t0))
  /\ UNCHANGED <<now, tokens, nreq>>

-----------------------------------------------------------------------------
(* scanTeacherAttendanceQR: second teacher self-attendance handler *)

ScanTeacherAttendanceQR_Start(p, k) ==
  /\ Free(p)
  /\ nreq' = nreq + 1
  /\ LET pr == Begin(p, "scanTeacherAttendanceQR", k, "")
     IN Advance(p,
          IF JwtVerify(k) # "ok"
            THEN Reply(pr, Resp(401, FALSE, "Invalid or expired QR code", ""))
          ELSE IF Decoded(k).teacherId = ""
            THEN Reply(pr, Resp(400, FALSE,
                         "This QR is not for teacher attendance", ""))
          ELSE [pr EXCEPT !.pc = "teacher"])
  /\ UNCHANGED <<now, tokens, attendance, tlog>>

\* Teacher.findById, then today is read; currentTime is read after the
\* findOne.  A teacherId that is no ObjectId makes findById throw: 500.
ScanTeacherAttendanceQR_Teacher(p) ==
  /\ procs[p].h = "scanTeacherAttendanceQR" /\ procs[p].pc = "teacher"
  /\ Advance(p,
       IF ~IsObjectId(Tok(p).teacherId)
         THEN Reply(procs[p], Resp(500, FALSE, "Failed to process QR scan", ""))
       ELSE IF Tok(p).teacherId \notin Teachers
         THEN Reply(procs[p], Resp(404, FALSE, "Teacher not found", ""))
       ELSE [procs[p] EXCEPT !.pc = "find", !.t0 = now])
  /\ UNCHANGED <<now, tokens, attendance, nreq, tlog>>

ScanTeacherAttendanceQR_Find(p) ==
  /\ procs[p].h = "scanTeacherAttendanceQR" /\ procs[p].pc = "find"
  /\ LET ex == FindTeacherAny(Tok(p).teacherId, Midnight(procs[p].t0))
         nx == TeacherDecide([procs[p] EXCEPT !.t1 = now], ex)
     IN /\ Advance(p, nx)
        /\ tlog' = IF nx.pc = "done"
                     THEN Logged(Tok(p).teacherId, "scanTeacherAttendanceQR",
                                 "completed", "", Midnight(procs[p].t0))
                     ELSE tlog
  /\ UNCHANGED <<now, tokens, attendance, nreq>>

\* sessionId: decoded.sessionId || `teacher_${Date.now()}`, no token's
\* session.
TeacherSessionId(t) == 0 - (t + 1) - 10 * DayMs

\* No attendanceType is given, so the schema's default 'student' applies;
\* studentId is null.
ScanTeacherAttendanceQR_Doc(p) ==
  [NewDoc("student", "", Tok(p).teacherId,
          NumOr(Tok(p).sessionId, TeacherSessionId(procs[p].t1)),
          "present", 0, Midnight(procs[p].t0), procs[p].t1, procs[p].t1)
     EXCEPT !.subject = "Teacher Attendance",
            !.institutionCode = StrOr(Tok(p).institutionCode,
                                      InstitutionOf(Tok(p).teacherId))]

ScanTeacherAttendanceQR_Save(p) ==
  /\ procs[p].h = "scanTeacherAttendanceQR" /\ procs[p].pc = "save"
  /\ IF procs[p].ex = 0
       THEN /\ attendance' = Append(attendance, ScanTeacherAttendanceQR_Doc(p))
            /\ Advance(p, Reply(procs[p],
                 Resp(200, TRUE, "Teacher check-in successful", "")))
            /\ tlog' = Logged(Tok(p).teacherId, "scanTeacherAttendanceQR",
                              "check_in", "", Midnight(procs[p].t0))
       ELSE /\ attendance' = [attendance EXCEPT ![procs[p].ex] =
                 CheckOutUpdate(@, procs[p].t1, procs[p].wh, FALSE)]
            /\ Advance(p, Reply(procs[p],
                 CheckOutReply(attendance[procs[p].ex],
                   Resp(200, TRUE, "Teacher check-out successful", ""))))
            /\ tlog' = Logged(Tok(p).teacherId, "scanTeacherAttendanceQR",
                              CheckOutOp(attendance[procs[p].ex]), "",
                              Midnight(procs[p].t0))
  /\ UNCHANGED <<now, tokens, nreq>>

-----------------------------------------------------------------------------
(* testTeacherScan: POST /test/teacher, no token and no authentication.  The
   later of the two definitions in qrController is the one exported. *)

\* sessionId: `test_${Date.now()}`, no token's session.
TestSessionId(t) == 0 - (t + 1)

TestTeacherScan_Start(p, t) ==
  /\ Free(p)
  /\ nreq' = nreq + 1
  /\ Advance(p, [Begin(p, "testTeacherScan", 0, t) EXCEPT !.pc = "teacher"])
  /\ UNCHANGED <<now, tokens, attendance, tlog>>

\* Teacher.findById, then today and the document are made.
TestTeacherScan_Teacher(p) ==
  /\ procs[p].h = "testTeacherScan" /\ procs[p].pc = "teacher"
  /\ Advance(p,
       IF procs[p].s \notin Teachers
         THEN Reply(procs[p], Resp(404, FALSE, "Teacher not found", ""))
       ELSE [procs[p] EXCEPT !.pc = "save", !.t0 = now, !.t1 = now])
  /\ UNCHANGED <<now, tokens, attendance, nreq, tlog>>

\* No lookup of an existing record, no attendanceType and no teacherCheckIn.
TestTeacherScan_Doc(p) ==
  [NewDoc("student", "", procs[p].s, TestSessionId(procs[p].t1),
          "present", 0, Midnight(procs[p].t0), procs[p].t1, NoTime)
     EXCEPT !.subject = "Teacher Attendance",
            !.institutionCode = InstitutionOf(procs[p].s)]

TestTeacherScan_Save(p) ==
  /\ procs[p].h = "testTeacherScan" /\ procs[p].pc = "save"
  /\ attendance' = Append(attendance, TestTeacherScan_Doc(p))
  /\ Advance(p, Reply(procs[p],
                      Resp(200, TRUE, "Test scan successful! Attendance stored.", "")))
  /\ UNCHANGED <<now, tokens, nreq, tlog>>

-----------------------------------------------------------------------------
(* Specifications *)

Quiet == \A q \in ProcIds : procs[q].pc = "idle"

\* A request may start: fewer than maxReq were made so far and, when the
\* requests are made one at a time, none is in flight.
MayStart(oneAtATime, maxReq) == nreq < maxReq /\ (oneAtATime => Quiet)

\* The steps of the two student handlers.  Node.js serves requests
\* concurrently: a handler may start while others wait on the store.
StudentSteps(oneAtATime, maxReq) ==
  \/ \E p \in ProcIds, k \in TokenInputs, s \in StudentUsers :
       MayStart(oneAtATime, maxReq) /\ ScanQR_Start(p, k, s)
  \/ \E p \in ProcIds : ScanQR_Find(p)
  \/ \E p \in ProcIds : ScanQR_Save(p)
  \/ \E p \in ProcIds, k \in TokenInputs, s \in StudentUsers :
       MayStart(oneAtATime, maxReq) /\ MarkAttendance_Start(p, k, s)
  \/ \E p \in ProcIds : MarkAttendance_Find(p)
  \/ \E p \in ProcIds : MarkAttendance_Lookup(p)
  \/ \E p \in ProcIds : MarkAttendance_Save(p)

\* The steps of the two teacher self-attendance handlers.
TeacherSteps(oneAtATime, maxReq) ==
  \/ \E p \in ProcIds, k \in TokenInputs :
       MayStart(oneAtATime, maxReq) /\ ScanTeacherQR_Start(p, k)
  \/ \E p \in ProcIds : ScanTeacherQR_Teacher(p)
  \/ \E p \in ProcIds : ScanTeacherQR_Find(p)
  \/ \E p \in ProcIds : ScanTeacherQR_Save(p)
  \/ \E p \in ProcIds, k \in TokenInputs :
       MayStart(oneAtATime, maxReq) /\ ScanTeacherAttendanceQR_Start(p, k)
  \/ \E p \in ProcIds : ScanTeacherAttendanceQR_Teacher(p)
  \/ \E p \in ProcIds : ScanTeacherAttendanceQR_Find(p)
  \/ \E p \in ProcIds : ScanTeacherAttendanceQR_Save(p)

\* The steps of the test route.
TestSteps(oneAtATime, maxReq) ==
  \/ \E p \in ProcIds, t \in TeacherIdInputs :
       MayStart(oneAtATime, maxReq) /\ TestTeacherScan_Start(p, t)
  \/ \E p \in ProcIds : TestTeacherScan_Teacher(p)
  \/ \E p \in ProcIds : TestTeacherScan_Save(p)

\* A teacher asks for a token, while fewer than maxTok were issued.
IssueClassUpTo(maxTok, times) ==
  \E t \in Teachers, body \in ClassInputs :
    now \in times /\ Len(tokens) < maxTok /\ GenerateQR(t, body)

IssueSelfUpTo(maxTok, times) ==
  \E t \in Teachers :
    now \in times /\ Len(tokens) < maxTok /\ GenerateTeacherSelfQR(t)

IssueClass == IssueClassUpTo(MaxTokens, IssueTimes)

IssueSelf == IssueSelfUpTo(MaxTokens, IssueTimes)

\* The whole service.
Next ==
  \/ Tick(TimePoints)
  \/ IssueClass
  \/ IssueSelf
  \/ StudentSteps(FALSE, MaxClassRequests)
  \/ TeacherSteps(FALSE, MaxSelfRequests)
  \/ TestSteps(FALSE, MaxSelfRequests)

Spec == Init /\ [][Next]_vars

\* Class sessions only: class tokens and the student handlers.
NextClass ==
  \/ Tick(TimePoints)
  \/ IssueClass
  \/ StudentSteps(FALSE, MaxClassRequests)

SpecClass == Init /\ [][NextClass]_vars

NextClassSeq ==
  \/ Tick(TimePoints)
  \/ IssueClass
  \/ StudentSteps(TRUE, MaxClassRequests)

SpecClassSeq == Init /\ [][NextClassSeq]_vars

\* Teacher self-attendance only: both kinds of token and the teacher handlers.
NextSelf ==
  \/ Tick(TimePoints)
  \/ IssueClass
  \/ IssueSelf
  \/ TeacherSteps(FALSE, MaxSelfRequests)

SpecSelf == Init /\ [][NextSelf]_vars

NextSelfSeq ==
  \/ Tick(TimePoints)
  \/ IssueClass
  \/ IssueSelf
  \/ TeacherSteps(TRUE, MaxSelfRequests)

SpecSelfSeq == Init /\ [][NextSelfSeq]_vars

\* The ledger under every route that writes it, one request at a time.
LedgerTimes == {0, 500, 60000}

NextLedger ==
  \/ Tick(LedgerTimes)
  \/ IssueClass
  \/ IssueSelf
  \/ StudentSteps(TRUE, MaxLedgerRequests)
  \/ TeacherSteps(TRUE, MaxLedgerRequests)
  \/ TestSteps(TRUE, MaxLedgerRequests)

SpecLedger == Init /\ [][NextLedger]_vars

\* Several keys side by side: two tokens, both teachers, the students and
\* two days, through the routed handlers scanQR and scanTeacherQR, one
\* request at a time.
KeyTimes == {0, 60000, DayMs + 500}

KeySteps ==
  \/ \E p \in ProcIds, k \in TokenInputs, s \in StudentUsers :
       MayStart(TRUE, MaxKeyRequests) /\ ScanQR_Start(p, k, s)
  \/ \E p \in ProcIds : ScanQR_Find(p)
  \/ \E p \in ProcIds : ScanQR_Save(p)
  \/ \E p \in ProcIds, k \in TokenInputs :
       MayStart(TRUE, MaxKeyRequests) /\ ScanTeacherQR_Start(p, k)
  \/ \E p \in ProcIds : ScanTeacherQR_Teacher(p)
  \/ \E p \in ProcIds : ScanTeacherQR_Find(p)
  \/ \E p \in ProcIds : ScanTeacherQR_Save(p)

NextKeys ==
  \/ Tick(KeyTimes)
  \/ IssueClassUpTo(MaxKeyTokens, KeyTimes)
  \/ IssueSelfUpTo(MaxKeyTokens, KeyTimes)
  \/ KeySteps

SpecKeys == Init /\ [][NextKeys]_vars

\* The routed handlers with a store that may reject a save, one request at
\* a time.
FailSteps ==
  \/ \E p \in ProcIds, k \in TokenInputs, s \in StudentUsers :
       MayStart(TRUE, MaxFailRequests) /\ ScanQR_Start(p, k, s)
  \/ \E p \in ProcIds : ScanQR_Find(p)
  \/ \E p \in ProcIds : ScanQR_Save(p)
  \/ \E p \in ProcIds : ScanQR_SaveFails(p)
  \/ \E p \in ProcIds, k \in TokenInputs :
       MayStart(TRUE, MaxFailRequests) /\ ScanTeacherQR_Start(p, k)
  \/ \E p \in ProcIds : ScanTeacherQR_Teacher(p)
  \/ \E p \in ProcIds : ScanTeacherQR_Find(p)
  \/ \E p \in ProcIds : ScanTeacherQR_Save(p)
  \/ \E p \in ProcIds : ScanTeacherQR_SaveFails(p)

NextFail ==
  \/ Tick(LedgerTimes)
  \/ IssueClass
  \/ IssueSelf
  \/ FailSteps

SpecFail == Init /\ [][NextFail]_vars

\* Login tokens next to the QR tokens: a user signs in and posts the login
\* token (or a QR token) to the scan handlers, one request at a time.
Login ==
  \/ \E s \in Students :
       now \in IssueTimes /\ Len(tokens) < MaxTokens /\ LoginStudent(s)
  \/ \E t \in Teachers, code \in TeacherCodes :
       now \in IssueTimes /\ Len(tokens) < MaxTokens /\ LoginTeacher(t, code)

NextLogin ==
  \/ Tick(LedgerTimes)
  \/ Login
  \/ IssueClass
  \/ IssueSelf
  \/ StudentSteps(TRUE, MaxLoginRequests)
  \/ TeacherSteps(TRUE, MaxLoginRequests)

SpecLogin == Init /\ [][NextLogin]_vars

\* A session and its refresh: the teacher of the running class session asks
\* for a refresh of it, between the students' requests.
Refresh ==
  \E body \in ClassInputs :
    /\ now \in LedgerTimes /\ Quiet
    /\ Len(tokens) >= 1 /\ Len(tokens) < MaxRefreshTokens
    /\ RefreshQR(tokens[Len(tokens)].teacherId, body,
                 tokens[Len(tokens)].sessionId)

NextRefresh ==
  \/ Tick(LedgerTimes)
  \/ IssueClass
  \/ Refresh
  \/ StudentSteps(TRUE, MaxRefreshRequests)

SpecRefresh == Init /\ [][NextRefresh]_vars

-----------------------------------------------------------------------------
(* Vocabulary of the properties *)

StudentHandlers == {"scanQR", "markAttendance"}

TeacherHandlers == {"scanTeacherQR", "scanTeacherAttendanceQR"}

TokenIds == 1..Len(tokens)

\* Validity window of a token by its kind, in ms.
TtlMs(tok) ==
  IF tok.type = "teacher_attendance" THEN TeacherTtlSec * MsPerSec
                                     ELSE ClassTtlSec * MsPerSec

\* Records of the (sessionId, studentId) key.
SessionDocs(sid, s) ==
  {i \in DocIds : attendance[i].sessionId = sid /\ attendance[i].studentId = s}

\* Teacher records of a (teacherId, date) key as scanTeacherQR writes them.
TeacherDocs(t, day) ==
  {i \in DocIds : /\ attendance[i].teacherId = t
                  /\ attendance[i].attendanceType = "teacher"
                  /\ Midnight(attendance[i].date) = day}

Days == {Midnight(t) : t \in TimePoints}

OfDay(log, day) == SelectSeq(log, LAMBDA e : e.day = day)

AlreadyMarked(r) ==
  r.message \in {"Attendance already marked for this session",
                 "Attendance already marked for this class"}

RejectedAtVerify(r) ==
  r.message \in {"QR code has expired", "QR code expired or invalid",
                 "Invalid or expired QR code", "Invalid QR code"}

\* The document the student request in slot p is about to save.
PendingDoc(p) ==
  IF procs[p].h = "scanQR" THEN ScanQR_Doc(p) ELSE MarkAttendance_Doc(p)

Saving(p, hs) == procs[p].pc = "save" /\ procs[p].h \in hs

-----------------------------------------------------------------------------
(* C1 *)

\* C1: once all concurrent redemptions of one token by one student have
\* finished, exactly one record exists for that (sessionId, studentId): an
\* answered redemption leaves at least one, and no key ever has more than one.
C1_ExactlyOneRecordPerKey ==
  Quiet =>
    /\ \A k \in TokenIds, s \in Students :
         Cardinality(SessionDocs(tokens[k].sessionId, s)) <= 1
    /\ (last.h \in StudentHandlers /\ (last.resp.success \/ AlreadyMarked(last.resp)))
         => Cardinality(SessionDocs(tokens[last.k].sessionId, last.s)) = 1

-----------------------------------------------------------------------------
(* C2 *)

\* C2: teacher self-attendance scans of one teacher on one day create at most
\* one check-in record, and at most one of them answers check_in, however
\* they interleave.
C2_OneCheckInPerTeacherDay ==
  \A t \in Teachers, day \in Days :
    /\ Cardinality(TeacherDocs(t, day)) <= 1
    /\ Len(SelectSeq(OfDay(tlog[t], day),
                      LAMBDA e : e.h = "scanTeacherQR" /\ e.op = "check_in")) <= 1

-----------------------------------------------------------------------------
(* C3 *)

\* C3: a check-out is written only onto a record that is still CHECKED_IN
\* when the write is applied, so checkOut and workHours are written once and
\* never overwritten by a second scan.
C3_CheckOutWrittenOnce ==
  [][\A p \in ProcIds :
       (Saving(p, {"scanTeacherQR"}) /\ procs[p].ex # 0 /\ procs'[p].pc = "idle")
         => attendance[procs[p].ex].teacherCheckOut = NoTime]_vars

-----------------------------------------------------------------------------
(* C4 *)

OnlyScanTeacherQR(log) == \A n \in 1..Len(log) : log[n].h = "scanTeacherQR"

\* C4: when a teacher's scans of one day are made one after the other
\* through scanTeacherQR, the first answers check_in and creates the record
\* with checkIn set and status present, the second answers check_out and
\* sets checkOut and workHours on that record, every later one fails with
\* "already completed", and exactly one teacher record exists for the
\* (teacherId, date) from the first scan on.
C4_TeacherStateMachine ==
  \A t \in Teachers, day \in Days :
    LET log == OfDay(tlog[t], day)
        docs == TeacherDocs(t, day)
    IN OnlyScanTeacherQR(log) =>
         /\ Len(log) = 0 => docs = {}
         /\ Len(log) >= 1 =>
              /\ log[1].action = "check_in"
              /\ Cardinality(docs) = 1
              /\ \A i \in docs : /\ attendance[i].teacherCheckIn # NoTime
                                 /\ attendance[i].status = "present"
         /\ Len(log) = 1 =>
              \A i \in docs : /\ attendance[i].teacherCheckOut = NoTime
                              /\ attendance[i].workHours = 0
         /\ Len(log) >= 2 =>
              /\ log[2].action = "check_out"
              /\ \A i \in docs :
                   /\ attendance[i].teacherCheckOut >= attendance[i].teacherCheckIn
                   /\ attendance[i].workHours =
                        WorkHours(attendance[i].teacherCheckIn,
                                  attendance[i].teacherCheckOut)
         /\ \A n \in 3..Len(log) :
              log[n].op = "completed" /\ log[n].action = ""

\* Three scans of one teacher were answered, the third with "already
\* completed", after a check-out later than the check-in.
C4_ThreeScansDone ==
  \E t \in Teachers :
    /\ Len(tlog[t]) = 3 /\ OnlyScanTeacherQR(tlog[t])
    /\ tlog[t][3].op = "completed"
    /\ last.resp.message = "Attendance already completed for today"
    /\ \E i \in TeacherDocs(t, 0) :
         attendance[i].teacherCheckOut > attendance[i].teacherCheckIn

-----------------------------------------------------------------------------
(* C5 *)

C5_OneRecord ==
  /\ \A k \in TokenIds, s \in Students :
       Cardinality(SessionDocs(tokens[k].sessionId, s)) <= 1
  /\ (last.h \in StudentHandlers /\ AlreadyMarked(last.resp))
       => Cardinality(SessionDocs(tokens[last.k].sessionId, last.s)) = 1
  /\ \A p \in ProcIds :
       (procs[p].h \in StudentHandlers /\ procs[p].pc \in {"lookup", "save"})
         => SessionDocs(Tok(p).sessionId, procs[p].s) = {}

C5_SecondCall ==
  /\ \A i \in DocIds : i <= Len(attendance') /\ attendance'[i] = attendance[i]
  /\ \A p \in ProcIds :
       (/\ procs[p].h \in StudentHandlers /\ procs[p].pc = "find"
        /\ procs'[p] # procs[p]
        /\ SessionDocs(Tok(p).sessionId, procs[p].s) # {})
         => /\ attendance' = attendance
            /\ procs'[p].pc = "idle"
            /\ last'.k = procs[p].k /\ last'.s = procs[p].s
            /\ AlreadyMarked(last'.resp) /\ ~last'.resp.success

\* C5: when redemptions are made one after the other, a (sessionId,
\* studentId) key never has more than one record; a redemption that finds
\* the key's record answers "already marked", creates nothing, and no step
\* of a student handler changes a record that exists.
C5_SecondRedemptionIsNoOp == []C5_OneRecord /\ [][C5_SecondCall]_vars

\* A second redemption of the same token by the same student was answered
\* "already marked" and the key has its one record.
C5_DuplicateAnswered ==
  /\ last.h \in StudentHandlers /\ AlreadyMarked(last.resp)
  /\ Cardinality(SessionDocs(tokens[last.k].sessionId, last.s)) = 1
  /\ nreq = 2

-----------------------------------------------------------------------------
(* C6 *)

\* C6: no attendance record is created or updated at a time later than the
\* token's issuance time plus its TTL, also not by a request that passed
\* verification before.
C6_NoWriteAfterTtl ==
  [][\A p \in ProcIds :
       (procs[p].pc = "save" /\ procs'[p].pc = "idle")
         => now <= Tok(p).timestamp + TtlMs(Tok(p))]_vars

-----------------------------------------------------------------------------
(* C7 *)

\* C7: a request with a validly signed token passes the validity check if and
\* only if the time elapsed since the claim's timestamp is at most the TTL of
\* the token's kind: a request that starts and is taken on is within the TTL,
\* and one that is turned away at verification is beyond it.
C7_ValidIffWithinTtl ==
  [][nreq' = nreq + 1 =>
       /\ \A p \in ProcIds :
            (procs[p].pc = "idle" /\ procs'[p].pc # "idle")
              => now - tokens[procs'[p].k].timestamp <= TtlMs(tokens[procs'[p].k])
       /\ (procs' = procs /\ last'.k # 0 /\ RejectedAtVerify(last'.resp))
              => now - tokens[last'.k].timestamp > TtlMs(tokens[last'.k])]_vars

-----------------------------------------------------------------------------
(* C8 *)

\* C8: the record a student handler creates has status late if and only if
\* more than 1 minute had elapsed since issuance when the handler read the
\* clock, and present otherwise.
C8_LateIffAfterOneMinute ==
  \A p \in ProcIds :
    Saving(p, StudentHandlers) =>
      (PendingDoc(p).status = "late"
         <=> procs[p].t0 - Tok(p).timestamp > LateAfterMin * MsPerMin)

-----------------------------------------------------------------------------
(* C9 *)

\* C9: the record a student handler creates has lateMinutes equal to the
\* whole minutes elapsed since issuance (as read by the handler) when its
\* status is late and 0 when it is present; so every late record has
\* lateMinutes >= 1, every present record has lateMinutes = 0, and
\* lateMinutes never exceeds the 5 minutes of the TTL.
C9_LateMinutes ==
  /\ \A p \in ProcIds :
       Saving(p, StudentHandlers) =>
         PendingDoc(p).lateMinutes =
           IF PendingDoc(p).status = "late"
             THEN (procs[p].t0 - Tok(p).timestamp) \div MsPerMin
             ELSE 0
  /\ \A i \in DocIds :
       attendance[i].studentId # "" =>
         /\ attendance[i].status = "late" => attendance[i].lateMinutes >= 1
         /\ attendance[i].status = "present" => attendance[i].lateMinutes = 0
         /\ attendance[i].lateMinutes <= ClassTtlSec \div 60

\* A late record of two whole minutes and an on-time record exist.
C9_LateAndPresentRecorded ==
  /\ \E i \in DocIds : attendance[i].status = "late" /\ attendance[i].lateMinutes = 2
  /\ \E i \in DocIds : attendance[i].status = "present" /\ attendance[i].studentId # ""

-----------------------------------------------------------------------------
(* C10 *)

\* C10: a validly signed, unexpired token that is not a teacher_self token is
\* answered "not for teacher attendance" by every teacher scan handler, and
\* no teacher record ever stems from such a token.
C10_ClassTokenRejectedByTeacherScan ==
  /\ \A i \in DocIds :
       attendance[i].studentId = ""
         => tokens[attendance[i].sessionId].type = "teacher_attendance"
  /\ (/\ last.h \in TeacherHandlers /\ last.k # 0
      /\ tokens[last.k].type # "teacher_attendance"
      /\ ~RejectedAtVerify(last.resp))
       => last.resp.message = "This QR is not for teacher attendance"

-----------------------------------------------------------------------------
(* C11 *)

\* C11: a teacher-self token is single-use: the token whose scan created the
\* check-in record of a (teacherId, date) never also performs the check-out of
\* that record, so one token causes at most one transition.
C11_TokenSingleUse ==
  [][\A p \in ProcIds :
       (Saving(p, {"scanTeacherQR"}) /\ procs[p].ex # 0 /\ procs'[p].pc = "idle")
         => attendance[procs[p].ex].sessionId # Tok(p).sessionId]_vars

-----------------------------------------------------------------------------
(* C12 *)

\* A teacher record of scanTeacherQR that has its check-out.
CheckedOut(i) ==
  attendance[i].attendanceType = "teacher" /\ attendance[i].teacherCheckOut # NoTime

\* C12: once a teacher's record of a day is CHECKED_OUT, scans made one after
\* the other neither change it nor create another record for that teacher and
\* day, and every scanTeacherQR scan of that teacher on that day is answered
\* "already completed".
C12_CheckedOutIsFinal ==
  [][\A i \in DocIds :
       CheckedOut(i) =>
         /\ i <= Len(attendance') /\ attendance'[i] = attendance[i]
         /\ \A j \in (Len(attendance) + 1)..Len(attendance') :
              ~(/\ attendance'[j].studentId = ""
                /\ attendance'[j].teacherId = attendance[i].teacherId
                /\ Midnight(attendance'[j].date) = Midnight(attendance[i].date))
         /\ \A p \in ProcIds :
              (/\ procs[p].h = "scanTeacherQR" /\ procs[p].pc = "find"
               /\ procs'[p] # procs[p]
               /\ Tok(p).teacherId = attendance[i].teacherId
               /\ Midnight(procs[p].t0) = Midnight(attendance[i].date))
                => /\ procs'[p].pc = "idle"
                   /\ last'.resp.code = 400
                   /\ last'.resp.message = "Attendance already completed for today"]_vars

\* A scan made after the check-out was answered "already completed", and the
\* record still carries the check-out and the work hours of the second scan.
C12_ScanAfterCheckOut ==
  /\ nreq = 3 /\ Quiet
  /\ last.h = "scanTeacherQR"
  /\ last.resp.message = "Attendance already completed for today"
  /\ \E i \in DocIds :
       /\ CheckedOut(i) /\ attendance[i].teacherId = tokens[last.k].teacherId
       /\ attendance[i].teacherCheckOut = 60000 /\ attendance[i].workHours = 2

-----------------------------------------------------------------------------
(* C13 *)

\* C13: a redemption by a user the Student collection does not hold, or with
\* a token of a teacher the Teacher collection does not hold, writes nothing:
\* every class-session record belongs to a student and a teacher of the
\* directory, and such a request is answered 404.
C13_NotFoundBeforeWrite ==
  /\ \A i \in DocIds :
       attendance[i].studentId # "" =>
         attendance[i].studentId \in Students /\ attendance[i].teacherId \in Teachers
  /\ (last.h \in StudentHandlers /\ last.s \notin Students /\ last.k # 0
      /\ ~RejectedAtVerify(last.resp) /\ ~AlreadyMarked(last.resp))
       => last.resp.code = 404

-----------------------------------------------------------------------------
(* C15 *)

\* C15: a class-session record carries the subject, class, section and
\* period of the token's claim, also when the claim's section is empty or its
\* period was defaulted at issuance, whatever the student's profile holds.
C15_ClassFieldsFromClaim ==
  \A i \in DocIds :
    attendance[i].studentId # "" =>
      LET claim == tokens[attendance[i].sessionId]
      IN /\ attendance[i].subject = claim.subject
         /\ attendance[i].class = claim.class
         /\ attendance[i].section = claim.section
         /\ attendance[i].period = claim.period

-----------------------------------------------------------------------------
(* C14 *)

\* Records of a teacher's own attendance on a day: those without a student.
SelfDocs(t, day) ==
  {i \in DocIds : /\ attendance[i].studentId = ""
                  /\ attendance[i].teacherId = t
                  /\ Midnight(attendance[i].date) = day}

\* C14: under every sequence of the teacher operations (scanTeacherQR,
\* scanTeacherAttendanceQR, testTeacherScan) a (teacherId, date) has at most
\* one teacher-self record, and every such record was created by a check-in.
C14_OneSelfRecordPerTeacherDay ==
  \A t \in Teachers, day \in Days :
    /\ Cardinality(SelfDocs(t, day)) <= 1
    /\ \A i \in SelfDocs(t, day) : attendance[i].teacherCheckIn # NoTime

-----------------------------------------------------------------------------
(* C16 *)

\* C16: a record that has its check-out carries workHours equal to
\* (checkOut - checkIn) in hours rounded to 2 decimals (kept here in
\* hundredths of an hour), and workHours is never negative.
C16_WorkHours ==
  \A i \in DocIds :
    /\ attendance[i].workHours >= 0
    /\ (attendance[i].teacherCheckOut # NoTime /\ attendance[i].teacherCheckIn # NoTime)
         => /\ attendance[i].teacherCheckOut >= attendance[i].teacherCheckIn
            /\ 2 * MsPerHour * attendance[i].workHours
                 <= 200 * (attendance[i].teacherCheckOut - attendance[i].teacherCheckIn)
                      + MsPerHour
            /\ 2 * MsPerHour * attendance[i].workHours
                 > 200 * (attendance[i].teacherCheckOut - attendance[i].teacherCheckIn)
                      - MsPerHour

-----------------------------------------------------------------------------
(* C17 *)

\* C17: no step deletes a record; a class-session record is never modified
\* after its creation; a teacher-self record is modified only by a check-out
\* that finds it without one, hence at most once.
C17_AppendOnlyLedger ==
  [][/\ Len(attendance') >= Len(attendance)
     /\ \A i \in DocIds :
          attendance'[i] # attendance[i] =>
            /\ attendance[i].studentId = ""
            /\ attendance[i].teacherCheckOut = NoTime
            /\ attendance'[i].teacherCheckOut # NoTime]_vars

-----------------------------------------------------------------------------
(* C18 *)

\* C18: the date of every attendance record is the start of the day on which
\* the redemption was made, so records of one calendar day have equal dates.
C18_DateIsStartOfDay ==
  \A i \in DocIds :
    /\ attendance[i].date = Midnight(attendance[i].date)
    /\ attendance[i].date = Midnight(attendance[i].scanTime)

-----------------------------------------------------------------------------
(* C19 *)

\* The record d belongs to the key the request in slot p redeems for:
\* (sessionId, studentId) for scanQR, (teacherId, date) for scanTeacherQR.
InKey(p, d) ==
  IF procs[p].h = "scanQR"
    THEN d.sessionId = Tok(p).sessionId /\ d.studentId = procs[p].s
    ELSE /\ d.studentId = "" /\ d.teacherId = Tok(p).teacherId
         /\ Midnight(d.date) = Midnight(procs[p].t0)

\* The records of the request's key.
KeyDocs(p) == {i \in DocIds : InKey(p, attendance[i])}

C19_Frame ==
  /\ Len(attendance') >= Len(attendance)
  /\ attendance' # attendance =>
       \E p \in ProcIds :
         /\ procs[p].pc = "save" /\ procs'[p].pc = "idle"
         /\ \A i \in 1..Len(attendance') :
              (i > Len(attendance) \/ attendance'[i] # attendance[i])
                => InKey(p, attendance'[i])

C19_OwnKeyDecides ==
  \A p \in ProcIds :
    (procs[p].pc = "find" /\ procs'[p] # procs[p]) =>
      /\ procs[p].h = "scanQR" =>
           (procs'[p].pc = "save" <=> KeyDocs(p) = {})
      /\ procs[p].h = "scanTeacherQR" =>
           /\ (procs'[p].pc = "save" /\ procs'[p].ex = 0) <=> KeyDocs(p) = {}
           /\ (procs'[p].pc = "save" /\ procs'[p].ex # 0) => procs'[p].ex \in KeyDocs(p)

\* C19: keys are independent: a redemption writes only records of its own
\* key and its outcome is decided by the records of its own key alone, so a
\* second student redeeming the same token gets an own record whatever the
\* first did, and a teacher's scan touches no record of another teacher, of
\* another day or of a student.
C19_KeysIndependent == [][C19_Frame /\ C19_OwnKeyDecides]_vars

\* Two students hold a record each for the same session, and the teacher of
\* that session checked in beside them.
C19_TwoStudentsAndTeacher ==
  /\ Quiet /\ nreq = 3
  /\ \E i, j, n \in DocIds :
       /\ attendance[i].studentId = "s1" /\ attendance[j].studentId = "s2"
       /\ attendance[i].sessionId = attendance[j].sessionId
       /\ tokens[attendance[i].sessionId].type = "none"
       /\ i < j /\ attendance[j].scanTime > attendance[i].scanTime
       /\ attendance[n].attendanceType = "teacher"
       /\ attendance[n].teacherId = attendance[i].teacherId
       /\ n > j

-----------------------------------------------------------------------------
(* C20 *)

\* The outcomes of a teacher's scans of one day, the failed attempts left out.
Effective(log, day) == SelectSeq(OfDay(log, day), LAMBDA e : e.op # "failed")

C20_FailStep ==
  \A p \in ProcIds :
    (procs[p].pc = "save" /\ procs'[p].pc = "idle" /\ last'.resp.code = 500)
      => /\ attendance' = attendance
         /\ tokens' = tokens
         /\ ~last'.resp.success

C20_AsIfNeverAttempted ==
  /\ \A t \in Teachers, day \in Days :
       LET log == Effective(tlog[t], day)
           docs == TeacherDocs(t, day)
       IN /\ Len(log) = 0 => docs = {}
          /\ Len(log) >= 1 => log[1].op = "check_in" /\ Cardinality(docs) = 1
          /\ Len(log) = 1 =>
               \A i \in docs : /\ attendance[i].teacherCheckOut = NoTime
                               /\ attendance[i].workHours = 0
          /\ Len(log) >= 2 =>
               /\ log[2].op = "check_out"
               /\ \A i \in docs :
                    /\ attendance[i].teacherCheckOut # NoTime
                    /\ attendance[i].workHours =
                         WorkHours(attendance[i].teacherCheckIn,
                                   attendance[i].teacherCheckOut)
          /\ \A n \in 3..Len(log) : log[n].op = "completed"
  /\ \A k \in TokenIds, s \in StudentUsers :
       Cardinality(SessionDocs(tokens[k].sessionId, s)) <= 1
  /\ (Quiet /\ last.h = "scanQR" /\ last.resp.code = 500)
       => SessionDocs(tokens[last.k].sessionId, last.s) = {}
  /\ (Quiet /\ last.h = "scanQR" /\ AlreadyMarked(last.resp))
       => Cardinality(SessionDocs(tokens[last.k].sessionId, last.s)) = 1

-----------------------------------------------------------------------------
(* Outcomes of verification *)

\* The message a handler answers to a token the secret did not sign
\* (JsonWebTokenError).
ForgedMessage(h) ==
  IF h = "scanQR" THEN "Invalid QR code"
  ELSE IF h = "markAttendance" THEN "QR code expired or invalid"
  ELSE "Invalid or expired QR code"

\* C21: every redemption endpoint reports a validly signed token that is
\* older than its TTL with an outcome distinct from the one it gives for a
\* malformed or wrongly signed token: the answer a handler gives to a forged
\* token is given to forged tokens only, never to an issued one, and it is
\* given before any record is read or written.
C21_ExpiredDistinctFromForged ==
  /\ (last.h # "" /\ last.resp.message = ForgedMessage(last.h)) => last.k = 0
  /\ \A p \in ProcIds : procs[p].pc # "idle" => JwtVerify(procs[p].k) # "JsonWebTokenError"

\* The tokens that differ from w in one place: one field of the body
\* replaced by another value of its kind under the signature of w, or the
\* signature replaced by one made with another key.
Altered(w) ==
  {[w EXCEPT !.body[i] = IF i \in {1, 7, 9, 10} THEN @ + 1
                         ELSE IF @ = "x" THEN "" ELSE "x"] : i \in 1..10}
    \cup {[w EXCEPT !.sig = <<OtherKey, w.body>>]}

Issued == {JwtSign(tokens[k], Secret) : k \in TokenIds}

-----------------------------------------------------------------------------
(* Separation of the two kinds of record *)

\* C23: a teacher self-attendance scan never takes a class-session (student)
\* record for its own state and never writes to one: the record a teacher
\* handler has read and is about to check out carries no student, and no
\* record of a student carries a check-out.
C23_TeacherScanLeavesStudentRecords ==
  /\ \A p \in ProcIds :
       (procs[p].h \in TeacherHandlers /\ procs[p].pc = "save" /\ procs[p].ex # 0)
         => attendance[procs[p].ex].studentId = ""
  /\ \A i \in DocIds :
       attendance[i].studentId # "" => attendance[i].teacherCheckOut = NoTime

\* C24: a teacher-self token presented to scanQR or markAttendance never
\* creates a student attendance record: every record that carries a student
\* stems from a token that is not of type teacher_attendance.
C24_NoStudentRecordFromTeacherToken ==
  \A i \in DocIds :
    (attendance[i].studentId # "" /\ attendance[i].sessionId \in TokenIds)
      => tokens[attendance[i].sessionId].type # "teacher_attendance"

-----------------------------------------------------------------------------
(* Responses *)

\* C25: the reported outcome of a scan agrees with its effect: the step of
\* a request that creates or changes an attendance record is the step that
\* answers it, and it answers with success = true; so a scan answered with
\* success = false has left every record as it was.
C25_SuccessAgreesWithEffect ==
  [][attendance' # attendance =>
       /\ \E p \in ProcIds : procs[p].pc = "save" /\ procs'[p].pc = "idle"
                             /\ last'.h = procs[p].h
       /\ last'.resp.success]_vars

\* The outcomes logged for any teacher.
Outcomes == UNION {{tlog[t][i] : i \in 1..Len(tlog[t])} : t \in Teachers}

\* C26: scanTeacherQR and scanTeacherAttendanceQR implement the same state
\* machine: the same transition is answered with the same action by either
\* handler, and the records either of them checks a teacher in with are of
\* the same kind, so that each finds what the other wrote.
C26_HandlersAgree ==
  /\ \A a \in Outcomes, b \in Outcomes : a.op = b.op => a.action = b.action
  /\ \A i \in DocIds, j \in DocIds :
       (attendance[i].studentId = "" /\ attendance[j].studentId = "")
         => attendance[i].attendanceType = attendance[j].attendanceType

-----------------------------------------------------------------------------
(* Provenance of records *)

QrTypes == {"none", "teacher_attendance"}

\* C27: every attendance record stems from a token minted by generateQR or
\* generateTeacherSelfQR: a login token, signed with the same secret but
\* without sessionId and timestamp, never leads to a record.
C27_RecordsStemFromQrTokens ==
  \A i \in DocIds :
    /\ attendance[i].sessionId \in TokenIds
    /\ tokens[attendance[i].sessionId].type \in QrTypes

\* C28: a student creates a class-session record only with a token issued in
\* the student's own institution: the institutionCode of every record of a
\* student is that of the student and that of the issuing teacher.
C28_RecordWithinOneInstitution ==
  \A i \in DocIds :
    attendance[i].studentId # "" =>
      /\ attendance[i].institutionCode = InstitutionOf(attendance[i].studentId)
      /\ attendance[i].institutionCode = InstitutionOf(attendance[i].teacherId)

-----------------------------------------------------------------------------
(* Teacher-self records *)

\* Records without a student: the teacher-self records of every route.
SelfRecords == {i \in DocIds : attendance[i].studentId = ""}

\* C29: every teacher-self record is well formed: checkIn is set; checkOut,
\* when set, is not earlier than checkIn and workHours is the rounded
\* difference of the two; workHours is 0 while checkOut is unset.
C29_SelfRecordsWellFormed ==
  \A i \in SelfRecords :
    LET d == attendance[i]
    IN /\ d.teacherCheckIn # NoTime
       /\ d.teacherCheckOut = NoTime => d.workHours = 0
       /\ d.teacherCheckOut # NoTime =>
            /\ d.teacherCheckOut >= d.teacherCheckIn
            /\ d.workHours = WorkHours(d.teacherCheckIn, d.teacherCheckOut)

-----------------------------------------------------------------------------
(* Refresh *)

\* The sessions refreshQR was asked to replace: under NextRefresh every
\* token but the latest was handed to refreshQR as oldSessionId.
Refreshed == {tokens[k].sessionId : k \in 1..(Len(tokens) - 1)}

RecordsOf(ledger, sid) == {i \in 1..Len(ledger) : ledger[i].sessionId = sid}

\* C30: refreshQR invalidates the old session and issues a new one: the
\* response to refreshQR carries a token of a session different from
\* oldSessionId, and once it is sent no redemption creates a record of the
\* old session.
C30_RefreshInvalidatesOld ==
  [][/\ last'.h = "refreshQR" =>
          /\ last'.resp.success
          /\ tokens'[Len(tokens')].sessionId # last'.k
     /\ \A sid \in Refreshed :
          RecordsOf(attendance', sid) = RecordsOf(attendance, sid)]_vars

====
